---- MODULE Spec2Model ----
(***************************************************************************)
(* The incremental search-and-select engine of yt_dlx_tui.py               *)
(* (class YoutubeDownloader) together with the boundary of                 *)
(* YouTubeFetcher in yt_dlx_backend.py.                                    *)
(*                                                                         *)
(* Time is counted in ticks of 0.2 s.  A tick stands for the interval      *)
(* [k, k+1): two things that happen in the same tick are ordered by the    *)
(* order of the steps.  The workers started with textual's @work are       *)
(* asyncio tasks of the App, all in the worker group "default".            *)
(***************************************************************************)
EXTENDS Integers, Sequences, FiniteSets

VARIABLES
    alive,              \* the App (its event loop) is running
    now,                \* time.time(), in ticks
    value,              \* the text of the Input widget
    last_input_time,    \* self._last_input_time
    pending_task,       \* self._pending_task: 0 (None) or the id of the task
    debounce,           \* the _debounced_search tasks that are not done
    searches,           \* the search_video_worker workers that are running
    results_data,       \* self.results_data
    selected_index,     \* self.selected_index
    focus_on_results,   \* self.focus_on_results
    downloads,          \* the download_worker workers, in dispatch order
    notifications,      \* what self.notify was called with, in order
    generation,         \* history: the number of query-change events so far
    burstCalls,         \* history: queries given to youtube_search since the burst began
    downs,              \* history: move_down calls in a row since the cursor was {Results, 0}
    ev                  \* history: the last event that was handled

vars == << alive, now, value, last_input_time, pending_task, debounce, searches,
           results_data, selected_index, focus_on_results, downloads,
           notifications, generation, burstCalls, downs, ev >>

----------------------------------------------------------------------------
(* Bounds of the model *)

MaxTime == 4
MaxChanges == 3
MaxResults == 2
MaxDownloads == 1
MaxDowns == 3

(* Program constants *)

\* DEBOUNCE_TIME = 0.4 s, in ticks of 0.2 s
DEBOUNCE_TIME == 2
\* the max_results argument of youtube_search in search_video_worker
SEARCH_LIMIT == 7

----------------------------------------------------------------------------
(* Values *)

\* Strings are sequences of one-character strings.
Queries == { <<>>, <<" ">>, <<"j">>, <<"j", "o">> }

IsSpace(c) == c = " "

RECURSIVE lstrip(_)
lstrip(s) == IF s # <<>> /\ IsSpace(Head(s)) THEN lstrip(Tail(s)) ELSE s

RECURSIVE rstrip(_)
rstrip(s) ==
    IF s # <<>> /\ IsSpace(s[Len(s)]) THEN rstrip(SubSeq(s, 1, Len(s) - 1)) ELSE s

\* str.strip()
strip(s) == rstrip(lstrip(s))

\* str.replace(old, new) for a one-character old
replace(s, old, new) == [i \in 1..Len(s) |-> IF s[i] = old THEN new ELSE s[i]]

Min(a, b) == IF a < b THEN a ELSE b

\* The titles the video platform gives the entries of a search, by rank.
EntryTitle(i) == IF i = 1 THEN <<"a", "/", "b">> ELSE <<"c", ":">>

\* YouTubeFetcher.youtube_search(query, max_results) when the platform has
\* `found` entries for the query: the first max_results of them.
youtube_search(query, max_results, found) ==
    [i \in 1..Min(found, max_results) |->
        [title |-> EntryTitle(i), url |-> <<query, i>>]]

\* a list subscript of Python: a negative index counts from the end
PyIndex(list, i) == IF i < 0 THEN list[Len(list) + i + 1] ELSE list[i + 1]

Event(op, id, flag) == [op |-> op, id |-> id, flag |-> flag]

----------------------------------------------------------------------------
Init ==
    /\ alive = TRUE
    /\ now = 0
    /\ value = <<>>
    /\ last_input_time = 0
    /\ pending_task = 0
    /\ debounce = {}
    /\ searches = {}
    /\ results_data = <<>>
    /\ selected_index = -1
    /\ focus_on_results = FALSE
    /\ downloads = <<>>
    /\ notifications = <<>>
    /\ generation = 0
    /\ burstCalls = <<>>
    /\ downs = -1
    /\ ev = Event("init", 0, FALSE)

\* history: the run of move_down calls is counted from a cursor {Results, 0}
DownsAfterOther(focus, index) == IF focus /\ index = 0 THEN 0 ELSE -1

Cursor == [focus |-> focus_on_results, index |-> selected_index]

----------------------------------------------------------------------------
(* Query changes and the debounce wait *)

\* variant: the index is reset and the focus is left where it was
ResetSelectionIndexOnly(cur) == [focus |-> cur.focus, index |-> -1]

\* on_input_changed: "reset selection when typing"
ResetSelection(cur) == [focus |-> FALSE, index |-> -1]

\* variant: the pending task is left to run
CancelPendingNone(tasks, pending) == tasks

\* on_input_changed: the pending task, when it is not done, is cancelled
CancelPending(tasks, pending) == { t \in tasks : t.id # pending }

\* history: the change belongs to the burst of the change before it when it
\* comes less than DEBOUNCE_TIME after it; in the tick in which the wait of
\* the earlier change ends, that is when the wait has not ended yet.
InBurst ==
    /\ generation > 0
    /\ \/ now - last_input_time < DEBOUNCE_TIME
       \/ /\ now - last_input_time = DEBOUNCE_TIME
          /\ \E t \in debounce : t.id = pending_task

on_input_changed(v) ==
    /\ alive
    /\ generation < MaxChanges
    /\ v # value
    /\ value' = v
    /\ last_input_time' = now
    /\ selected_index' = ResetSelection(Cursor).index
    /\ focus_on_results' = ResetSelection(Cursor).focus
    /\ debounce' = CancelPending(debounce, pending_task) \cup
                     { [id |-> generation + 1, query |-> v,
                        wake |-> now + DEBOUNCE_TIME] }
    /\ pending_task' = generation + 1
    /\ generation' = generation + 1
    /\ burstCalls' = IF InBurst THEN burstCalls ELSE <<>>
    /\ downs' = -1
    /\ ev' = Event("input_changed", generation + 1, InBurst)
    /\ UNCHANGED << alive, now, searches, results_data, downloads, notifications >>

\* _debounced_search: time.time() - self._last_input_time >= DEBOUNCE_TIME
DebounceElapsed(t, last) == t - last >= DEBOUNCE_TIME

\* @work(exclusive=True): starting the worker cancels every worker of its
\* group; download_worker is in the same (default) group. A cancelled
\* download_worker gets CancelledError, which "except Exception" lets through.
CancelGroup(workers) ==
    [d \in 1..Len(workers) |->
        IF workers[d].state = "running"
        THEN [workers[d] EXCEPT !.state = "cancelled"]
        ELSE workers[d]]

\* _debounced_search(query), from the end of its sleep
debounced_search(t) ==
    /\ alive
    /\ t \in debounce
    /\ now >= t.wake
    /\ debounce' = debounce \ {t}
    /\ IF DebounceElapsed(now, last_input_time) /\ strip(t.query) # <<>>
       THEN /\ searches' = { [id |-> t.id, query |-> t.query] }
            /\ downloads' = CancelGroup(downloads)
            /\ burstCalls' = Append(burstCalls, <<t.id, t.query>>)
            /\ UNCHANGED results_data
       ELSE /\ results_data' = IF DebounceElapsed(now, last_input_time)
                               THEN <<>> ELSE results_data
            /\ UNCHANGED << searches, downloads, burstCalls >>
    /\ downs' = DownsAfterOther(focus_on_results, selected_index)
    /\ ev' = Event("debounce", t.id,
                   DebounceElapsed(now, last_input_time) /\ strip(t.query) # <<>>)
    /\ UNCHANGED << alive, now, value, last_input_time, pending_task,
                    selected_index, focus_on_results, notifications, generation >>

----------------------------------------------------------------------------
(* The search worker *)

\* search_video_worker, from the return of youtube_search
search_done(w, found) ==
    /\ alive
    /\ w \in searches
    /\ searches' = searches \ {w}
    /\ results_data' = youtube_search(w.query, SEARCH_LIMIT, found)
    /\ selected_index' = -1
    /\ downs' = -1
    /\ ev' = Event("search_done", w.id, w.id < generation)
    /\ UNCHANGED << alive, now, value, last_input_time, pending_task, debounce,
                    focus_on_results, downloads, notifications, generation,
                    burstCalls >>

\* search_video_worker when youtube_search raises: nothing catches it, and a
\* worker started with @work (exit_on_error left True) ends the App.
search_error(w) ==
    /\ alive
    /\ w \in searches
    /\ searches' = searches \ {w}
    /\ alive' = FALSE
    /\ ev' = Event("search_error", w.id, w.id < generation)
    /\ UNCHANGED << now, value, last_input_time, pending_task, debounce,
                    results_data, selected_index, focus_on_results, downloads,
                    notifications, generation, burstCalls, downs >>

----------------------------------------------------------------------------
(* Navigation *)

\* variant: the last item is the end of the list
MoveDownClamp(cur, n) ==
    IF n = 0 THEN cur
    ELSE IF ~cur.focus THEN [focus |-> TRUE, index |-> 0]
    ELSE [focus |-> cur.focus, index |-> Min(cur.index + 1, n - 1)]

MoveDown(cur, n) ==
    IF n = 0 THEN cur
    ELSE IF ~cur.focus THEN [focus |-> TRUE, index |-> 0]
    ELSE [focus |-> cur.focus, index |-> (cur.index + 1) % n]

action_move_down ==
    /\ alive
    /\ selected_index' = MoveDown(Cursor, Len(results_data)).index
    /\ focus_on_results' = MoveDown(Cursor, Len(results_data)).focus
    /\ downs' = IF results_data = <<>> THEN downs
                ELSE IF downs >= 0 /\ downs < MaxDowns THEN downs + 1
                ELSE DownsAfterOther(focus_on_results', selected_index')
    /\ ev' = Event("move_down", 0, results_data # <<>>)
    /\ UNCHANGED << alive, now, value, last_input_time, pending_task, debounce,
                    searches, results_data, downloads, notifications,
                    generation, burstCalls >>

\* variant: up from the first item wraps to the last
MoveUpWrap(cur, n) ==
    IF n = 0 THEN cur
    ELSE IF cur.focus THEN [focus |-> cur.focus, index |-> (cur.index - 1) % n]
    ELSE cur

MoveUp(cur, n) ==
    IF n = 0 THEN cur
    ELSE IF cur.focus /\ cur.index = 0 THEN [focus |-> FALSE, index |-> -1]
    ELSE IF cur.focus THEN [focus |-> cur.focus, index |-> (cur.index - 1) % n]
    ELSE cur

action_move_up ==
    /\ alive
    /\ selected_index' = MoveUp(Cursor, Len(results_data)).index
    /\ focus_on_results' = MoveUp(Cursor, Len(results_data)).focus
    /\ downs' = DownsAfterOther(focus_on_results', selected_index')
    /\ ev' = Event("move_up", 0, results_data # <<>> /\ focus_on_results)
    /\ UNCHANGED << alive, now, value, last_input_time, pending_task, debounce,
                    searches, results_data, downloads, notifications,
                    generation, burstCalls >>

----------------------------------------------------------------------------
(* Download *)

\* variant: the lower bound of the index is not tested
ActivateValidNoLower(cur, n) == cur.focus /\ cur.index < n

ActivateValid(cur, n) == cur.focus /\ 0 <= cur.index /\ cur.index < n

Notification(severity, kind, task) ==
    [severity |-> severity, kind |-> kind, task |-> task]

action_activate ==
    /\ alive
    /\ ActivateValid(Cursor, Len(results_data)) => Len(downloads) < MaxDownloads
    /\ IF ActivateValid(Cursor, Len(results_data))
       THEN LET video == PyIndex(results_data, selected_index)
                title == replace(replace(video.title, "/", "_"), ":", "_")
            IN  /\ notifications' =
                      Append(notifications,
                             Notification("information", "downloading",
                                          Len(downloads) + 1))
                /\ downloads' =
                      Append(downloads,
                             [url |-> video.url,
                              output_path |-> <<"~", "Downloads", title, ".mp4">>,
                              title |-> title,
                              state |-> "running"])
       ELSE UNCHANGED << downloads, notifications >>
    /\ ev' = Event("activate", Len(downloads'),
                   ActivateValid(Cursor, Len(results_data)))
    /\ UNCHANGED << alive, now, value, last_input_time, pending_task, debounce,
                    searches, results_data, selected_index, focus_on_results,
                    generation, burstCalls, downs >>

\* the keyword arguments of the call in download_worker
PassedArgs == {"url", "output_path"}

\* the parameters of download_video, none of which has a default
RequiredArgs == {"url", "fmt", "output_path"}

\* The call YouTubeFetcher.download_video(**passed), when the provider itself
\* would succeed (ok) or fail for the url and the destination.
download_video(passed, ok) ==
    IF passed # RequiredArgs THEN "TypeError"
    ELSE IF ok THEN "returned" ELSE "DownloadError"

\* download_worker, from the end of the download_video call
download_done(d, ok) ==
    /\ alive
    /\ d \in 1..Len(downloads)
    /\ downloads[d].state = "running"
    /\ downloads' = [downloads EXCEPT ![d].state = "done"]
    /\ notifications' =
          Append(notifications,
                 IF download_video(PassedArgs, ok) = "returned"
                 THEN Notification("information", "downloaded", d)
                 ELSE Notification("error", "failed", d))
    /\ ev' = Event("download_done", d, ok)
    /\ UNCHANGED << alive, now, value, last_input_time, pending_task, debounce,
                    searches, results_data, selected_index, focus_on_results,
                    generation, burstCalls, downs >>

----------------------------------------------------------------------------
(* Time *)

\* The clock moves on once the event loop has run the timers that are due.
Tick ==
    /\ alive
    /\ now < MaxTime
    /\ \A t \in debounce : t.wake > now
    /\ now' = now + 1
    /\ ev' = Event("tick", 0, FALSE)
    /\ UNCHANGED << alive, value, last_input_time, pending_task, debounce,
                    searches, results_data, selected_index, focus_on_results,
                    downloads, notifications, generation, burstCalls, downs >>

Next ==
    \/ \E v \in Queries : on_input_changed(v)
    \/ \E t \in debounce : debounced_search(t)
    \/ \E w \in searches, found \in 0..MaxResults : search_done(w, found)
    \/ \E w \in searches : search_error(w)
    \/ action_move_down
    \/ action_move_up
    \/ action_activate
    \/ \E d \in 1..MaxDownloads, ok \in BOOLEAN : download_done(d, ok)
    \/ Tick

Spec == Init /\ [][Next]_vars

----------------------------------------------------------------------------
(* Properties *)

Terminal(d) ==
    { i \in 1..Len(notifications) :
        /\ notifications[i].task = d
        /\ notifications[i].kind \in {"downloaded", "failed"} }

\* C1: a search completion whose query was superseded by a later query-change
\* event (its generation is less than the current one) leaves results_data
\* as it was.
StaleSearchDiscarded ==
    [][ev'.op = "search_done" /\ ev'.flag => results_data' = results_data]_vars

\* the quiet period after the last change has lasted DEBOUNCE_TIME
QuietPeriodOver ==
    /\ generation > 0
    /\ \/ now - last_input_time > DEBOUNCE_TIME
       \/ /\ now - last_input_time = DEBOUNCE_TIME
          /\ ~ \E t \in debounce : t.id = pending_task

\* C2: at most one debounce wait is live; within a burst of changes less than
\* DEBOUNCE_TIME apart no search is started; once the quiet period after the
\* burst has lasted DEBOUNCE_TIME, youtube_search has been called exactly once
\* for the burst, with its last query, when that is not blank (and not at all
\* when it is blank).
Coalescing ==
    /\ Cardinality(debounce) <= 1
    /\ \A i \in 1..Len(burstCalls) : burstCalls[i] = <<generation, value>>
    /\ ~QuietPeriodOver => burstCalls = <<>>
    /\ QuietPeriodOver =>
          burstCalls = IF strip(value) # <<>>
                       THEN << <<generation, value>> >> ELSE <<>>

\* a burst of at least two changes, all in the first DEBOUNCE_TIME, has been
\* followed by the quiet period and the search for its last query
CoalescingWitness ==
    /\ generation >= 2
    /\ last_input_time < DEBOUNCE_TIME
    /\ QuietPeriodOver
    /\ ev = Event("debounce", generation, TRUE)
    /\ burstCalls = << <<generation, value>> >>

\* C3: the cursor is valid: focus on the results means an index inside
\* results_data, focus on the input means index -1.
CursorValid ==
    /\ focus_on_results =>
          0 <= selected_index /\ selected_index < Len(results_data)
    /\ ~focus_on_results => selected_index = -1

\* C4: no download task is cancelled or silenced: a task that is still
\* running has given no terminal notification, and a task that is no longer
\* running has given exactly one.
DownloadReportsOnce ==
    \A d \in 1..Len(downloads) :
        /\ downloads[d].state \in {"running", "done"}
        /\ downloads[d].state = "running" => Terminal(d) = {}
        /\ downloads[d].state = "done" => Cardinality(Terminal(d)) = 1

\* C5: after youtube_search raised in search_video_worker the error has been
\* notified and the interaction loop is alive.
SearchErrorReported ==
    ev.op = "search_error" =>
        /\ alive
        /\ \E i \in 1..Len(notifications) : notifications[i].severity = "error"

MoveDownRing ==
    [][ev'.op = "move_down" =>
          LET n == Len(results_data) IN
          /\ results_data' = results_data
          /\ n = 0 => Cursor' = Cursor
          /\ n > 0 /\ ~focus_on_results =>
                Cursor' = [focus |-> TRUE, index |-> 0]
          /\ n > 0 /\ focus_on_results =>
                Cursor' = [focus |-> TRUE, index |-> (selected_index + 1) % n]
          /\ n > 0 /\ downs' = n =>
                Cursor' = [focus |-> TRUE, index |-> 0]]_vars

\* N >= 2 move_down calls in a row from {Results, 0} have come back to it
MoveDownWitness ==
    /\ ev.op = "move_down"
    /\ Len(results_data) >= 2
    /\ downs = Len(results_data)
    /\ Cursor = [focus |-> TRUE, index |-> 0]

\* the number of move_up calls that take a cursor to {Input, -1}
UpRank(cur, n) ==
    IF ~cur.focus THEN 0
    ELSE IF cur.index >= 0 THEN cur.index + 1
    ELSE n + 1

\* C8: with N = len(results_data) > 0, move_up takes {Results, 0} to
\* {Input, -1}, {Results, i} with i > 0 to {Results, i - 1}, changes nothing
\* when the focus is on the input, and from a cursor on the results each call
\* comes nearer to {Input, -1}.
MoveUpExits ==
    [][ev'.op = "move_up" =>
          LET n == Len(results_data) IN
          /\ results_data' = results_data
          /\ n > 0 /\ focus_on_results /\ selected_index = 0 =>
                Cursor' = [focus |-> FALSE, index |-> -1]
          /\ n > 0 /\ focus_on_results /\ selected_index > 0 =>
                Cursor' = [focus |-> TRUE, index |-> selected_index - 1]
          /\ ~focus_on_results => Cursor' = Cursor
          /\ n > 0 /\ focus_on_results =>
                UpRank(Cursor', n) < UpRank(Cursor, n)]_vars

\* move_up from the first of at least two results has given the focus back
MoveUpWitness ==
    /\ ev = Event("move_up", 0, TRUE)
    /\ Len(results_data) >= 2
    /\ Cursor = [focus |-> FALSE, index |-> -1]

\* C9: a confirm dispatches exactly one download task, for
\* results_data[selected_index], when the focus is on the results and the
\* index is inside results_data, and none otherwise; results_data and the
\* cursor are unchanged either way.
ConfirmDispatchesOne ==
    [][ev'.op = "activate" =>
          /\ results_data' = results_data
          /\ Cursor' = Cursor
          /\ IF /\ focus_on_results
                /\ 0 <= selected_index
                /\ selected_index < Len(results_data)
             THEN /\ Len(downloads') = Len(downloads) + 1
                  /\ SubSeq(downloads', 1, Len(downloads)) = downloads
                  /\ downloads'[Len(downloads')].url =
                        results_data[selected_index + 1].url
                  /\ downloads'[Len(downloads')].state = "running"
             ELSE downloads' = downloads]_vars

\* a confirm on the second result has dispatched a download of its url
ConfirmWitness ==
    /\ ev.op = "activate"
    /\ ev.flag
    /\ selected_index = 1
    /\ downloads # <<>>
    /\ downloads[Len(downloads)].url = results_data[2].url

\* C10: a download task whose provider would succeed for its url and
\* destination ends with the success notification.
DownloadSucceedsWhenProviderDoes ==
    ev.op = "download_done" /\ ev.flag =>
        \E i \in 1..Len(notifications) :
            notifications[i] = Notification("information", "downloaded", ev.id)

====
